---- MODULE Spec2Model ----
(***************************************************************************)
(* Model of src/app.py: the Streamlit sales dashboard.  One render cycle   *)
(* is the top-to-bottom run of the script: load the workbook (through the  *)
(* st.cache_data cache), read the sidebar widgets, filter, compute KPIs,   *)
(* build the aggregate views, show the data table and export.              *)
(*                                                                         *)
(* Numbers are exact decimals held in hundredths (12 is 1200, 7.5 is 750). *)
(* A timestamp is the integer month*100 + day*10 + time-of-day slot, so    *)
(* 111 is "January 1st, later in the day"; t \div 10 is its calendar date  *)
(* and t \div 100 its month.                                               *)
(***************************************************************************)
EXTENDS Integers, Sequences, FiniteSets, TLC

VARIABLES file, cache, baseline, exportedFrom, pc, err, error_shown, loads,
          from_cache, ran, df, min_date, max_date, date_range, start_date, end_date,
          products, product_sel, f, kpi, monthly, by_prod, daily, mix,
          shown, excel_bytes

vars == <<file, cache, baseline, exportedFrom, pc, err, error_shown, loads,
          from_cache, ran, df, min_date, max_date, date_range, start_date, end_date,
          products, product_sel, f, kpi, monthly, by_prod, daily, mix,
          shown, excel_bytes>>

\* Largest number of data rows of a workbook sheet.
MaxRows == 3

------------------------------------------------------------------------------
\* Generic helpers

Range(s) == {s[i] : i \in 1..Len(s)}

SeqsUpTo(S, n) == UNION {[1..k -> S] : k \in 0..n}

RECURSIVE SumSeq(_)
SumSeq(s) == IF s = <<>> THEN 0 ELSE Head(s) + SumSeq(Tail(s))

MinOf(S) == CHOOSE x \in S : \A y \in S : x <= y
MaxOf(S) == CHOOSE x \in S : \A y \in S : y <= x

RECURSIVE SortedAsc(_)
SortedAsc(S) == IF S = {} THEN <<>>
                ELSE <<MinOf(S)>> \o SortedAsc(S \ {MinOf(S)})

\* All orderings of the elements of a sequence.
Orderings(s) ==
    {[i \in 1..Len(s) |-> s[p[i]]] :
        p \in {q \in [1..Len(s) -> 1..Len(s)] :
                  \A i, j \in 1..Len(s) : i # j => q[i] # q[j]}}

------------------------------------------------------------------------------
\* Spreadsheet cells: a number, a text, a date-time or an empty cell.

Num(n) == [k |-> "num", n |-> n, s |-> ""]
Str(s) == [k |-> "str", n |-> 0, s |-> s]
Dt(t)  == [k |-> "dt",  n |-> t, s |-> ""]
Nan    == [k |-> "nan", n |-> 0, s |-> ""]

RawRow(d, p, q, u, t) ==
    [Date |-> d, Product |-> p, Quantity |-> q, UnitPrice |-> u,
     Total |-> t, Month |-> Nan]

RowChoices ==
    { RawRow(Dt(110), Str("WidgetA"), Num(1000), Str("12"),  Num(2000)),
      RawRow(Dt(111), Str("WidgetB"), Num(500),  Str("abc"), Num(2000)),
      RawRow(Dt(210), Str("WidgetA"), Str("7.5"), Str("7.5"), Num(400)),
      RawRow(Dt(121), Nan,            Nan,       Num(300),   Str("abc")),
      RawRow(Str("n/a"), Str("WidgetB"), Num(100), Num(100), Num(100)) }

\* Calendar dates the date widget can return.
CalendarDays == {11, 12, 13, 21}

expected == <<"Date", "Product", "Quantity", "Unit Price", "Total">>

Workbook(ex, fault, sheet, cols, rows) ==
    [exists |-> ex, fault |-> fault, sheet |-> sheet, cols |-> cols,
     rows |-> rows]

GoodWorkbooks ==
    {Workbook(TRUE, "none", "SalesData", expected, rows) :
        rows \in SeqsUpTo(RowChoices, MaxRows)}

BadWorkbooks ==
    LET r == <<RawRow(Dt(110), Str("WidgetA"), Num(1000), Str("12"),
                      Num(2000))>>
    IN { Workbook(FALSE, "none", "", <<>>, <<>>),
         Workbook(TRUE, "corrupt", "", <<>>, <<>>),
         Workbook(TRUE, "none", "Sheet1", expected, r),
         Workbook(TRUE, "none", "SalesData",
                  <<"Date", "Product", "Quantity", "Unit Price">>, r),
         Workbook(TRUE, "none", "SalesData", <<"Product", "Total">>, r),
         Workbook(TRUE, "none", "SalesData", <<>>, <<>>) }

Workbooks == GoodWorkbooks \cup BadWorkbooks

EmptyTable == [cols |-> <<>>, rows |-> <<>>]
NoWorkbook == Workbook(FALSE, "none", "", <<>>, <<>>)
NoError == [raised |-> FALSE, type |-> "", msg |-> "", missing |-> <<>>]
Error(type, msg, missing) ==
    [raised |-> TRUE, type |-> type, msg |-> msg, missing |-> missing]
Nothing == [has |-> FALSE, val |-> EmptyTable]
Some(t) == [has |-> TRUE, val |-> t]

------------------------------------------------------------------------------
\* Conversions

\* Texts pd.to_numeric can parse, with their value in hundredths.
NumericText == [s \in {"12", "7.5"} |-> IF s = "12" THEN 1200 ELSE 750]

\* pd.to_numeric(errors="coerce") of one cell: ok is FALSE for NaN.
to_numeric(c) ==
    IF c.k = "num" THEN [ok |-> TRUE, v |-> c.n]
    ELSE IF c.k = "str" /\ c.s \in DOMAIN NumericText
         THEN [ok |-> TRUE, v |-> NumericText[c.s]]
    ELSE [ok |-> FALSE, v |-> 0]

\* Variant: only cells stored as numbers count, numeric text becomes 0.
numeric_strict(c) == IF c.k = "num" THEN c.n ELSE 0

\* pd.to_numeric(..., errors="coerce").fillna(0)
numeric_fillna(c) == IF to_numeric(c).ok THEN to_numeric(c).v ELSE 0

\* pd.to_datetime(errors="coerce") of one cell: ok is FALSE for NaT.
to_datetime(c) ==
    IF c.k = "dt" THEN [ok |-> TRUE, t |-> c.n] ELSE [ok |-> FALSE, t |-> 0]

\* Series.dt.date
DateOf(t) == t \div 10

\* Series.dt.to_period("M"): the month a timestamp falls in.
MonthOf(t) == t \div 100

\* str(Period): "YYYY-MM", whose text order is the order of the months.
MonthStr(m) == IF m = 1 THEN "2024-01" ELSE IF m = 2 THEN "2024-02"
               ELSE "2024-03"

\* A missing Product value is held as the empty text.
ProductOf(c) == IF c.k = "str" THEN c.s ELSE ""

------------------------------------------------------------------------------
\* Helpers of the script

\* pd.read_excel(path, sheet_name="SalesData")
read_excel(wb) ==
    IF ~wb.exists
    THEN [ok |-> FALSE, err |-> Error("FileNotFoundError", "No such file", <<>>),
          table |-> EmptyTable]
    ELSE IF wb.fault # "none"
    THEN [ok |-> FALSE, err |-> Error("BadZipFile", "File is not a zip file", <<>>),
          table |-> EmptyTable]
    ELSE IF wb.sheet # "SalesData"
    THEN [ok |-> FALSE,
          err |-> Error("ValueError", "Worksheet named 'SalesData' not found", <<>>),
          table |-> EmptyTable]
    ELSE [ok |-> TRUE, err |-> NoError,
          table |-> [cols |-> wb.cols, rows |-> wb.rows]]

\* Variant: the membership test the wrong way round.
UnexpectedColumns(cols) == SelectSeq(cols, LAMBDA c : c \notin Range(expected))

\* missing = [c for c in expected if c not in df.columns]
MissingColumns(cols) == SelectSeq(expected, LAMBDA c : c \notin Range(cols))

\* One row of the loaded frame; idx is the frame's index label.
CoerceRow(i, r) ==
    [idx       |-> i - 1,
     Date      |-> to_datetime(r.Date).t,
     Product   |-> ProductOf(r.Product),
     Quantity  |-> numeric_fillna(r.Quantity),
     UnitPrice |-> numeric_fillna(r.UnitPrice),
     Total     |-> numeric_fillna(r.Total),
     Month     |-> MonthOf(to_datetime(r.Date).t)]

\* df.dropna(subset=["Date"]) after pd.to_datetime: the positions kept.
RECURSIVE KeptFrom(_, _)
KeptFrom(rows, i) ==
    IF i > Len(rows) THEN <<>>
    ELSE (IF to_datetime(rows[i].Date).ok THEN <<i>> ELSE <<>>)
         \o KeptFrom(rows, i + 1)

LoadedColumns(cols) ==
    IF "Month" \in Range(cols) THEN cols ELSE Append(cols, "Month")

load_sales_xlsx(wb) ==
    LET r == read_excel(wb)
        missing == MissingColumns(r.table.cols)
        kept == KeptFrom(r.table.rows, 1)
    IN IF ~r.ok THEN [ok |-> FALSE, err |-> r.err, table |-> EmptyTable]
       ELSE IF missing # <<>>
       THEN [ok |-> FALSE,
             err |-> Error("ValueError", "Missing columns in SalesData sheet",
                           missing),
             table |-> EmptyTable]
       ELSE [ok |-> TRUE, err |-> NoError,
             table |-> [cols |-> LoadedColumns(r.table.cols),
                        rows |-> [j \in 1..Len(kept) |->
                                     CoerceRow(kept[j], r.table.rows[kept[j]])]]]

\* A frame row as to_excel writes it.
ExcelRow(r) ==
    [Date |-> Dt(r.Date),
     Product |-> IF r.Product = "" THEN Nan ELSE Str(r.Product),
     Quantity |-> Num(r.Quantity), UnitPrice |-> Num(r.UnitPrice),
     Total |-> Num(r.Total), Month |-> Str(MonthStr(r.Month))]

\* to_excel_bytes(df, sheet_name): index=False, one sheet.
to_excel_bytes(t, sheet_name) ==
    Workbook(TRUE, "none", sheet_name, t.cols,
             [i \in 1..Len(t.rows) |-> ExcelRow(t.rows[i])])

------------------------------------------------------------------------------
\* Filtering and aggregation

\* Variant: the bounds compared as midnight timestamps, not calendar dates.
InFilterMidnight(r, s, e, sel) ==
    /\ r.Date >= s * 10
    /\ r.Date <= e * 10
    /\ r.Product \in sel

\* Variant: the product selection is not applied.
InFilterNoProduct(r, s, e, sel) ==
    /\ DateOf(r.Date) >= s
    /\ DateOf(r.Date) <= e

\* The boolean mask of lines 88-92.
InFilter(r, s, e, sel) ==
    /\ DateOf(r.Date) >= s
    /\ DateOf(r.Date) <= e
    /\ r.Product \in sel

ApplyFilters(t, s, e, sel) ==
    [cols |-> t.cols, rows |-> SelectSeq(t.rows, LAMBDA r : InFilter(r, s, e, sel))]

\* sorted(df["Product"].dropna().unique().tolist())
ProductRank(p) == IF p = "WidgetA" THEN 1 ELSE IF p = "WidgetB" THEN 2 ELSE 3
ProductOptions(t) ==
    LET S == {r.Product : r \in Range(t.rows)} \ {""}
        ranks == SortedAsc({ProductRank(p) : p \in S})
    IN [i \in 1..Len(ranks) |-> CHOOSE p \in S : ProductRank(p) = ranks[i]]

Column(rows, c) == [i \in 1..Len(rows) |-> rows[i][c]]

\* Variant: the first value of the group instead of its sum.
GroupFirst(rows, keycol, key, c) ==
    Head(Column(SelectSeq(rows, LAMBDA r : r[keycol] = key), c))

\* Sum of column c over the rows whose key column has value key.
GroupSum(rows, keycol, key, c) ==
    SumSeq(Column(SelectSeq(rows, LAMBDA r : r[keycol] = key), c))

\* groupby drops missing keys; integer keys come out in ascending order.
GroupKeys(rows, keycol) == {r[keycol] : r \in Range(rows)}

\* f.groupby(keycol, as_index=False)["Total"].sum().sort_values(keycol)
GroupTotalByKey(rows, keycol) ==
    LET keys == SortedAsc(GroupKeys(rows, keycol))
    IN [i \in 1..Len(keys) |->
           [key |-> keys[i], Total |-> GroupSum(rows, keycol, keys[i], "Total")]]

\* f.groupby("Product").agg(Sales=("Total","sum"), Units=("Quantity","sum"))
GroupByProduct(rows) ==
    LET keys == ProductOptions([cols |-> <<>>, rows |-> rows])
    IN [i \in 1..Len(keys) |->
           [Product |-> keys[i],
            Sales |-> GroupSum(rows, "Product", keys[i], "Total"),
            Units |-> GroupSum(rows, "Product", keys[i], "Quantity")]]

\* Variant: ascending=False forgotten.
IsAscending(s, c) == \A i \in 1..Len(s) - 1 : s[i][c] <= s[i + 1][c]

IsDescending(s, c) == \A i \in 1..Len(s) - 1 : s[i][c] >= s[i + 1][c]

\* sort_values(c, ascending=False); the order of equal values is not fixed.
SortDescending(s, c) == {o \in Orderings(s) : IsDescending(o, c)}

\* int(x) of a value held in hundredths: truncation towards zero.
IntTrunc(x) == IF x >= 0 THEN x \div 100 ELSE -((-x) \div 100)

------------------------------------------------------------------------------
\* The render cycle

NoKpi == [total_sales |-> 0, total_units |-> 0,
          avg_unit_price |-> [sum |-> 0, n |-> 1], tx_count |-> 0]

Terminal == {"done", "stopped", "crashed"}

Init ==
    /\ file \in Workbooks
    /\ cache = Nothing
    /\ baseline = Nothing
    /\ exportedFrom = Nothing
    /\ pc = "load"
    /\ err = NoError
    /\ error_shown = FALSE
    /\ loads = 0
    /\ from_cache = FALSE
    /\ ran = {}
    /\ df = EmptyTable
    /\ min_date = 0
    /\ max_date = 0
    /\ date_range = <<>>
    /\ start_date = 0
    /\ end_date = 0
    /\ products = <<>>
    /\ product_sel = {}
    /\ f = EmptyTable
    /\ kpi = NoKpi
    /\ monthly = <<>>
    /\ by_prod = <<>>
    /\ daily = <<>>
    /\ mix = <<>>
    /\ shown = <<>>
    /\ excel_bytes = NoWorkbook

\* Every run of the script starts with fresh script variables.
ResetCycle ==
    /\ pc' = "load"
    /\ err' = NoError
    /\ error_shown' = FALSE
    /\ loads' = 0
    /\ from_cache' = FALSE
    /\ ran' = {}
    /\ df' = EmptyTable
    /\ min_date' = 0
    /\ max_date' = 0
    /\ date_range' = <<>>
    /\ start_date' = 0
    /\ end_date' = 0
    /\ products' = <<>>
    /\ product_sel' = {}
    /\ f' = EmptyTable
    /\ kpi' = NoKpi
    /\ monthly' = <<>>
    /\ by_prod' = <<>>
    /\ daily' = <<>>
    /\ mix' = <<>>
    /\ shown' = <<>>
    /\ excel_bytes' = NoWorkbook

\* A widget change or browser refresh runs the script again from the top.
Rerun ==
    /\ pc \in Terminal
    /\ ResetCycle
    /\ UNCHANGED <<file, cache, baseline, exportedFrom>>

\* @st.cache_data: a hit returns a copy of the stored frame, a miss runs
\* the function; a raised exception is not stored.
cached_load(c, wb) ==
    IF c.has THEN [ok |-> TRUE, err |-> NoError, table |-> c.val]
    ELSE load_sales_xlsx(wb)

\* Variant: the except branch shows the error but does not stop the run.
LoadNoStop ==
    /\ pc = "load"
    /\ LET r == cached_load(cache, file)
       IN /\ loads' = loads + 1
          /\ from_cache' = cache.has
          /\ IF r.ok
             THEN /\ df' = r.table
                  /\ cache' = Some(r.table)
                  /\ baseline' = IF baseline.has THEN baseline ELSE Some(r.table)
                  /\ pc' = "filters"
                  /\ UNCHANGED <<err, error_shown>>
             ELSE /\ err' = r.err
                  /\ error_shown' = TRUE
                  /\ pc' = "filters"
                  /\ UNCHANGED <<df, cache, baseline>>
    /\ UNCHANGED <<file, exportedFrom, ran, min_date, max_date, date_range,
                   start_date, end_date, products, product_sel, f, kpi,
                   monthly, by_prod, daily, mix, shown, excel_bytes>>

\* Lines 58-62: try: df = load_sales_xlsx(DATA_PATH)
\*              except Exception: st.error(...); st.stop()
Load ==
    /\ pc = "load"
    /\ LET r == cached_load(cache, file)
       IN /\ loads' = loads + 1
          /\ from_cache' = cache.has
          /\ IF r.ok
             THEN /\ df' = r.table
                  /\ cache' = Some(r.table)
                  /\ baseline' = IF baseline.has THEN baseline ELSE Some(r.table)
                  /\ pc' = "filters"
                  /\ UNCHANGED <<err, error_shown>>
             ELSE /\ err' = r.err
                  /\ error_shown' = TRUE
                  /\ pc' = "stopped"
                  /\ UNCHANGED <<df, cache, baseline>>
    /\ UNCHANGED <<file, exportedFrom, ran, min_date, max_date, date_range,
                   start_date, end_date, products, product_sel, f, kpi,
                   monthly, by_prod, daily, mix, shown, excel_bytes>>

\* What st.date_input can return for a range value: nothing, a start
\* only, or a start and an end, all within [lo, hi].
DateInputs(lo, hi) ==
    LET days == {d \in CalendarDays : lo <= d /\ d <= hi}
    IN {<<>>} \cup {<<d>> : d \in days}
       \cup {<<p[1], p[2]>> : p \in {q \in days \X days : q[1] <= q[2]}}

\* Variant: the filter result replaces the loaded frame as well.
FilterInPlace(filtered) == f' = filtered /\ df' = filtered

\* f = df[mask].copy(): f is a new frame, df is left as loaded.
FilterAssign(filtered) == f' = filtered /\ df' = df

\* Lines 69-92: the sidebar widgets and the filtered frame f.
Filters ==
    /\ pc = "filters"
    /\ IF df.rows = <<>>
       THEN \* min()/max() of an empty column is NaT: the date widget either
            \* rejects it or the script goes on with nothing to filter.
            /\ \/ /\ pc' = "crashed"
                  /\ UNCHANGED ran
               \/ /\ pc' = "kpis"
                  /\ ran' = ran \cup {"filters"}
            /\ FilterAssign([cols |-> df.cols, rows |-> <<>>])
            /\ UNCHANGED <<min_date, max_date, date_range, start_date,
                           end_date, products, product_sel>>
       ELSE LET lo == DateOf(MinOf({r.Date : r \in Range(df.rows)}))
                hi == DateOf(MaxOf({r.Date : r \in Range(df.rows)}))
                opts == ProductOptions(df)
            IN \E dr \in DateInputs(lo, hi), sel \in SUBSET Range(opts) :
                 LET s == IF Len(dr) = 2 THEN dr[1] ELSE lo
                     e == IF Len(dr) = 2 THEN dr[2] ELSE hi
                 IN /\ min_date' = lo
                    /\ max_date' = hi
                    /\ date_range' = dr
                    /\ start_date' = s
                    /\ end_date' = e
                    /\ products' = opts
                    /\ product_sel' = sel
                    /\ FilterAssign(ApplyFilters(df, s, e, sel))
                    /\ pc' = "kpis"
                    /\ ran' = ran \cup {"filters"}
    /\ UNCHANGED <<file, cache, baseline, exportedFrom, err, error_shown,
                   loads, from_cache, kpi, monthly, by_prod, daily, mix, shown,
                   excel_bytes>>

\* f[c].mean() as the exact fraction sum / n.
Mean(rows, c) == [sum |-> SumSeq(Column(rows, c)), n |-> Len(rows)]

\* Lines 99-102.
KPIs ==
    /\ pc = "kpis"
    /\ kpi' = [total_sales |-> SumSeq(Column(f.rows, "Total")),
               total_units |-> IntTrunc(SumSeq(Column(f.rows, "Quantity"))),
               avg_unit_price |-> IF Len(f.rows) # 0
                                  THEN Mean(f.rows, "UnitPrice")
                                  ELSE [sum |-> 0, n |-> 1],
               tx_count |-> Len(f.rows)]
    /\ pc' = "monthly"
    /\ ran' = ran \cup {"kpis"}
    /\ UNCHANGED <<file, cache, baseline, exportedFrom, err, error_shown,
                   loads, from_cache, df, min_date, max_date, date_range, start_date,
                   end_date, products, product_sel, f, monthly, by_prod,
                   daily, mix, shown, excel_bytes>>

\* Lines 118-121.
Monthly ==
    /\ pc = "monthly"
    /\ monthly' = GroupTotalByKey(f.rows, "Month")
    /\ pc' = "by_prod"
    /\ ran' = ran \cup {"monthly"}
    /\ UNCHANGED <<file, cache, baseline, exportedFrom, err, error_shown,
                   loads, from_cache, df, min_date, max_date, date_range, start_date,
                   end_date, products, product_sel, f, kpi, by_prod, daily,
                   mix, shown, excel_bytes>>

\* Lines 134-138.
ByProd ==
    /\ pc = "by_prod"
    /\ by_prod' \in SortDescending(GroupByProduct(f.rows), "Sales")
    /\ pc' = "daily"
    /\ ran' = ran \cup {"by_prod"}
    /\ UNCHANGED <<file, cache, baseline, exportedFrom, err, error_shown,
                   loads, from_cache, df, min_date, max_date, date_range, start_date,
                   end_date, products, product_sel, f, kpi, monthly, daily,
                   mix, shown, excel_bytes>>

\* Line 156.
Daily ==
    /\ pc = "daily"
    /\ daily' = GroupTotalByKey(f.rows, "Date")
    /\ pc' = "mix"
    /\ ran' = ran \cup {"daily"}
    /\ UNCHANGED <<file, cache, baseline, exportedFrom, err, error_shown,
                   loads, from_cache, df, min_date, max_date, date_range, start_date,
                   end_date, products, product_sel, f, kpi, monthly, by_prod,
                   mix, shown, excel_bytes>>

\* Lines 163-167: Share is the fraction num / den.
Mix ==
    /\ pc = "mix"
    /\ LET total == SumSeq(Column(by_prod, "Sales"))
       IN mix' = [i \in 1..Len(by_prod) |->
                    [Product |-> by_prod[i].Product,
                     Sales |-> by_prod[i].Sales,
                     Units |-> by_prod[i].Units,
                     Share |-> IF total > 0
                               THEN [num |-> by_prod[i].Sales, den |-> total]
                               ELSE [num |-> 0, den |-> 1]]]
    /\ pc' = "table"
    /\ ran' = ran \cup {"mix"}
    /\ UNCHANGED <<file, cache, baseline, exportedFrom, err, error_shown,
                   loads, from_cache, df, min_date, max_date, date_range, start_date,
                   end_date, products, product_sel, f, kpi, monthly, by_prod,
                   daily, shown, excel_bytes>>

\* Lines 181-185: st.dataframe(f.sort_values("Date", ascending=False)).
DataTable ==
    /\ pc = "table"
    /\ shown' \in SortDescending(f.rows, "Date")
    /\ pc' = "export"
    /\ ran' = ran \cup {"table"}
    /\ UNCHANGED <<file, cache, baseline, exportedFrom, err, error_shown,
                   loads, from_cache, df, min_date, max_date, date_range, start_date,
                   end_date, products, product_sel, f, kpi, monthly, by_prod,
                   daily, mix, excel_bytes>>

\* Lines 190-196.
Export ==
    /\ pc = "export"
    /\ excel_bytes' = to_excel_bytes(f, "FilteredSales")
    /\ pc' = "done"
    /\ ran' = ran \cup {"export"}
    /\ UNCHANGED <<file, cache, baseline, exportedFrom, err, error_shown,
                   loads, from_cache, df, min_date, max_date, date_range, start_date,
                   end_date, products, product_sel, f, kpi, monthly, by_prod,
                   daily, mix, shown>>

\* The cache lives in the server process: "Clear cache" or a restart
\* empties it between two runs of the script.
ClearCache ==
    /\ pc \in Terminal
    /\ cache.has
    /\ cache' = Nothing
    /\ UNCHANGED <<file, baseline, exportedFrom, pc, err, error_shown, loads,
                   from_cache, ran, df, min_date, max_date, date_range, start_date,
                   end_date, products, product_sel, f, kpi, monthly, by_prod,
                   daily, mix, shown, excel_bytes>>

\* The user saves the downloaded workbook as the data file and restarts
\* the app, so that the next run loads the export.
ReloadExport ==
    /\ pc = "done"
    /\ ~exportedFrom.has
    /\ file' = excel_bytes
    /\ exportedFrom' = Some(f)
    /\ cache' = Nothing
    /\ baseline' = Nothing
    /\ ResetCycle

Next ==
    \/ Rerun
    \/ Load
    \/ Filters
    \/ KPIs
    \/ Monthly
    \/ ByProd
    \/ Daily
    \/ Mix
    \/ DataTable
    \/ Export
    \/ ClearCache
    \/ ReloadExport

Spec == Init /\ [][Next]_vars

------------------------------------------------------------------------------
\* Properties

\* The filtered frame f of the current run exists.
Filtered == "filters" \in ran

CountRows(rows, P(_)) == Len(SelectSeq(rows, P))

\* The sum of the values of function fn over the set S.
RECURSIVE SumOverSet(_, _)
SumOverSet(S, fn) ==
    IF S = {} THEN 0
    ELSE LET x == CHOOSE y \in S : TRUE
         IN fn[x] + SumOverSet(S \ {x}, fn)

\* s is t with some rows left out, the others in their original order.
IsSubTable(s, t) ==
    /\ s.cols = t.cols
    /\ Range(s.rows) \subseteq Range(t.rows)
    /\ \A i \in 1..Len(s.rows) - 1 : s.rows[i].idx < s.rows[i + 1].idx

InDateRange(r) == start_date <= r.Date \div 10 /\ r.Date \div 10 <= end_date

FullSpan == start_date = min_date /\ end_date = max_date

ExactlyTheSelectedRows ==
    /\ IsSubTable(f, df)
    /\ \A r \in Range(df.rows) :
          r \in Range(f.rows) <=> (InDateRange(r) /\ r.Product \in product_sel)
    /\ Len(date_range) = 2 => start_date = date_range[1] /\ end_date = date_range[2]

\* C1 as stated: f holds exactly the rows dated within [s, e] whose Product
\* is selected, and with the full date span f has the original row count.
C1_Original ==
    Filtered =>
        /\ ExactlyTheSelectedRows
        /\ FullSpan => Len(f.rows) = Len(df.rows)

\* C1 amended: f holds exactly the rows dated within [s, e] (both ends
\* inclusive, by calendar date) whose Product is selected; with the full date
\* span the date bounds remove no row, so f has as many rows as the loaded
\* table has rows with a selected Product.
C1_DateFilter ==
    Filtered =>
        /\ ExactlyTheSelectedRows
        /\ FullSpan =>
              Len(f.rows) = CountRows(df.rows, LAMBDA r : r.Product \in product_sel)

\* A two-date range was picked that cuts off a row later in the day of the
\* end date's neighbour and keeps a row timed after midnight of the end date.
C1_Witness ==
    /\ Filtered
    /\ Len(date_range) = 2
    /\ \E r \in Range(df.rows) : r.Date \div 10 > end_date
    /\ \E r \in Range(f.rows) : r.Date \div 10 = end_date /\ r.Date % 10 # 0

\* C2: f holds only rows whose Product is selected, the per-product row
\* counts add up to the row count of f, and an empty selection empties f.
C2_ProductFilter ==
    Filtered =>
        /\ \A r \in Range(f.rows) : r.Product \in product_sel
        /\ SumOverSet(product_sel,
                      [p \in product_sel |->
                          CountRows(f.rows, LAMBDA r : r.Product = p)])
             = Len(f.rows)
        /\ product_sel = {} => f.rows = <<>>

C2_Witness ==
    /\ Filtered
    /\ product_sel # {}
    /\ product_sel # Range(products)
    /\ f.rows # <<>>
    /\ \E r \in Range(df.rows) : InDateRange(r) /\ r \notin Range(f.rows)

\* C3: every group-by-sum view adds up to the total over f, which is the
\* Total Sales KPI; the Units of the by-product view add up to the Quantity
\* total of f.
C3_SumsPreserved ==
    LET total == SumSeq(Column(f.rows, "Total"))
    IN /\ "kpis" \in ran => kpi.total_sales = total
       /\ "monthly" \in ran => SumSeq(Column(monthly, "Total")) = total
       /\ "by_prod" \in ran =>
             /\ SumSeq(Column(by_prod, "Sales")) = total
             /\ SumSeq(Column(by_prod, "Units")) = SumSeq(Column(f.rows, "Quantity"))
       /\ "daily" \in ran => SumSeq(Column(daily, "Total")) = total

\* All views are built, with a group of more than one row in each.
C3_Witness ==
    /\ pc = "done"
    /\ Len(f.rows) = 3
    /\ Len(monthly) = 2
    /\ Len(by_prod) = 2
    /\ Len(daily) = 2
    /\ kpi.total_sales > 0

Defaults ==
    /\ Filtered
    /\ FullSpan
    /\ product_sel = Range(products)

\* C4 as stated: with the widgets at their defaults f has exactly the rows
\* of the loaded table.
C4_Original == Defaults => f.rows = df.rows

\* The cells of column c of the sheet that the rows of f were read from.
RawColumn(c) == [i \in 1..Len(f.rows) |-> file.rows[f.rows[i].idx + 1][c]]

IsNumeric(c) == c.k = "num" \/ (c.k = "str" /\ c.s \in {"12", "7.5"})

\* C5 as stated: a cell that is not a number is dropped, so the mean of Unit
\* Price is the mean of the cells that are numbers (9.75 for 12, abc, 7.5).
C5_Original ==
    ("kpis" \in ran /\ f.rows # <<>>) =>
        LET surviving == SelectSeq(RawColumn("UnitPrice"), IsNumeric)
        IN /\ Len(surviving) # 0 =>
                kpi.avg_unit_price.sum * Len(surviving)
                  = SumSeq([i \in 1..Len(surviving) |-> to_numeric(surviving[i]).v])
                      * kpi.avg_unit_price.n
           /\ RawColumn("UnitPrice") = <<Str("12"), Str("abc"), Str("7.5")>> =>
                kpi.avg_unit_price.sum = 975 * kpi.avg_unit_price.n

ZeroFilled(c) == IF to_numeric(c).ok THEN to_numeric(c).v ELSE 0

ZeroFilledSum(c) ==
    SumSeq([i \in 1..Len(f.rows) |-> ZeroFilled(RawColumn(c)[i])])

\* C5 amended: a cell of Quantity, Unit Price or Total that is not a number
\* becomes 0 and its row stays: it adds 0 to every sum and still counts in
\* the transaction count and in the mean's denominator (12, abc, 7.5 gives
\* 12, 0, 7.5 with mean 6.5).
C5_ZeroFill ==
    ("kpis" \in ran /\ f.rows # <<>>) =>
        /\ kpi.tx_count = Len(RawColumn("UnitPrice"))
        /\ kpi.avg_unit_price.n = Len(RawColumn("UnitPrice"))
        /\ kpi.avg_unit_price.sum = ZeroFilledSum("UnitPrice")
        /\ kpi.total_sales = ZeroFilledSum("Total")
        /\ Column(f.rows, "Quantity")
             = [i \in 1..Len(f.rows) |-> ZeroFilled(RawColumn("Quantity")[i])]
        /\ RawColumn("UnitPrice") = <<Str("12"), Str("abc"), Str("7.5")>> =>
              /\ Column(f.rows, "UnitPrice") = <<1200, 0, 750>>
              /\ kpi.avg_unit_price.sum = 650 * kpi.avg_unit_price.n

C5_Witness ==
    /\ "kpis" \in ran
    /\ RawColumn("UnitPrice") = <<Str("12"), Str("abc"), Str("7.5")>>

\* Two tables with the same columns in the same order and the same values
\* row by row.
SameRows(a, b) ==
    /\ a.cols = b.cols
    /\ Len(a.rows) = Len(b.rows)
    /\ \A i \in 1..Len(a.rows) :
          \A c \in {"Date", "Product", "Quantity", "UnitPrice", "Total", "Month"} :
             a.rows[i][c] = b.rows[i][c]

\* C6 as stated: loading the exported workbook succeeds and gives the rows
\* and columns of the exported table.
C6_Original ==
    (exportedFrom.has /\ pc # "load") =>
        /\ ~err.raised
        /\ SameRows(df, exportedFrom.val)

HasSheet(wb) == wb.exists /\ wb.fault = "none" /\ wb.sheet = "SalesData"

LacksColumns(wb) ==
    HasSheet(wb) /\ \E c \in Range(expected) : c \notin Range(wb.cols)

C8_HaltOnLoadError ==
    /\ err.raised =>
          /\ error_shown
          /\ pc = "stopped"
          /\ ran = {}
          /\ loads = 1
          /\ f = EmptyTable /\ kpi = NoKpi
          /\ monthly = <<>> /\ by_prod = <<>> /\ daily = <<>> /\ mix = <<>>
          /\ shown = <<>> /\ excel_bytes = NoWorkbook
    /\ (pc \notin {"load"} /\ ~HasSheet(file)) => err.raised
    /\ loads <= 1

C8_Witness ==
    /\ pc = "stopped"
    /\ error_shown
    /\ err.type = "FileNotFoundError"

\* C9: while the workbook is unchanged every load, cached or re-read, gives
\* the table of the first load, and no later step of a run changes the base
\* table or the cached one.
C9_LoadIdempotent ==
    /\ cache.has => baseline.has /\ cache.val = baseline.val
    /\ (pc \notin {"load", "stopped"}) => baseline.has /\ df = baseline.val

\* A later run served from the cache, in which the filter left rows out.
C9_Witness ==
    /\ from_cache
    /\ pc = "done"
    /\ Len(f.rows) < Len(df.rows)
    /\ f.rows # <<>>

KeysOf(view, c) == {view[i][c] : i \in 1..Len(view)}

OnePerKey(view, c, keys) ==
    /\ KeysOf(view, c) = keys
    /\ Len(view) = Cardinality(keys)

\* C10: each view has one record per key value present in f and none for
\* any other key; monthly and daily are in ascending key order, by-product
\* in descending order of Sales.
C10_Views ==
    /\ "monthly" \in ran =>
          /\ OnePerKey(monthly, "key", {r.Date \div 100 : r \in Range(f.rows)})
          /\ \A i \in 1..Len(monthly) - 1 : monthly[i].key < monthly[i + 1].key
    /\ "by_prod" \in ran =>
          /\ OnePerKey(by_prod, "Product", {r.Product : r \in Range(f.rows)})
          /\ \A i \in 1..Len(by_prod) - 1 : by_prod[i].Sales >= by_prod[i + 1].Sales
    /\ "daily" \in ran =>
          /\ OnePerKey(daily, "key", {r.Date : r \in Range(f.rows)})
          /\ \A i \in 1..Len(daily) - 1 : daily[i].key < daily[i + 1].key

\* A date of the loaded table has no row in f, and the by-product view
\* puts the later product first because it sold more.
C10_Witness ==
    /\ pc = "done"
    /\ \E r \in Range(df.rows) : r.Date \notin KeysOf(daily, "key")
    /\ Len(monthly) = 2
    /\ Len(by_prod) = 2
    /\ by_prod[1].Product = "WidgetB"
    /\ by_prod[1].Sales > by_prod[2].Sales

====
